---------------------------- MODULE Spec2Model ----------------------------
(***************************************************************************)
(* A model of the PAL utility collection: the wide-bitfield helpers, the   *)
(* power-of-two helpers and HashString of palInlineFuncs.h, and the debug  *)
(* print routing declared in palDbgPrint.h.                                *)
(*                                                                         *)
(* Machine words are modelled as the set of their set bit positions, so    *)
(* that 64-bit words and the 32-bit int conversions in the code keep their *)
(* width.  A wide bitfield T (&bitfield)[N] is a function 0..N-1 -> word.  *)
(***************************************************************************)
EXTENDS Integers, Sequences, FiniteSets, TLC

VARIABLES
    component,  \* which part of the library the behaviour exercises
    sizeofT,    \* sizeof(T) of the word type the templates are instantiated with
    N,          \* number of words of the wide bitfield (template parameter N)
    initial,    \* contents of the caller's array before the first call
    bitfield,   \* the caller's array T (&bitfield)[N]
    expected,   \* bit indices whose most recent SetBit/ClearBit call was SetBit
    nOps,       \* number of SetBit/ClearBit calls made so far
    pIndex,     \* the caller's uint32 that pIndex points to
    call,       \* name of the most recent call
    arg,        \* its argument (bit index, or the value of *pIndex at entry)
    ret,        \* its return value
    hits,       \* bit indices reported so far by the current scan iteration
    oobRead,    \* TRUE when a call read mask[i] with i >= N
    dbgPrintTable,     \* the process-wide mapping Category -> Mode
    dbgPrintCallback,  \* the installed DbgPrintCallback {pCallbackFunc, pUserdata}
    callbackArg,       \* argument of the latest SetDbgPrintCallback call, if any
    dbgLast,           \* the most recent debug print call and what it did
    charSigned,  \* whether plain char is a signed type in this build
    pStr,        \* the bytes HashString is called on (strSize is their number)
    hashCall,    \* "none" before the call of HashString, "HashString" after it
    hash,        \* the uint32 it returned, as two 16-bit halves
    alignBits,   \* width in bits of the unsigned type T of Pow2Align
    value,       \* Pow2Align's argument value
    alignLog2,   \* its argument alignment is 2^alignLog2 (a uint64)
    alignCall,   \* "none", "Pow2Align", or "Pow2AlignAgain" (applied to the result)
    aligned,     \* the value the first call returned
    realigned,   \* the value the call on the result returned
    padBits,     \* width in bits of the unsigned type T of Pow2Pad
    padValue,    \* Pow2Pad's argument value
    padRet,      \* its local ret
    padPc,       \* "call" before the call, "while" at the loop test, "return" after it
    popValue,    \* CountSetBits' argument value, as two 16-bit halves
    popCall,     \* "none" before the call of CountSetBits, "CountSetBits" after it
    popCount,    \* the uint32 it returned, as two 16-bit halves
    ulongBits,   \* width in bits of unsigned long in this build
    logBits,     \* width in bits of the unsigned type T of CeilLog2
    u,           \* CeilLog2's argument u, as the set of its one bits
    logValue,    \* its local logValue
    logPc        \* "call" before the call, "while" at the loop test, "return" after it

bitVars == <<sizeofT, N, initial, bitfield, expected, nOps, pIndex, call, arg, ret, hits, oobRead>>

dbgVars == <<dbgPrintTable, dbgPrintCallback, callbackArg, dbgLast>>

hashVars == <<charSigned, pStr, hashCall, hash>>

alignVars == <<alignBits, value, alignLog2, alignCall, aligned, realigned>>

padVars == <<padBits, padValue, padRet, padPc>>

popVars == <<popValue, popCall, popCount>>

logVars == <<ulongBits, logBits, u, logValue, logPc>>

mathVars == <<padVars, popVars, logVars>>

vars == <<component, bitVars, dbgVars, hashVars, alignVars, mathVars>>

--------------------------------------------------------------------------
(* Bounds of the model *)

MaxBitOps == 2

MaxHits == 3

MaxStrLen == 2

MaxAlignLog2 == 17

\* CeilLog2's loop is followed while logValue is below this number.
MaxLogValue == 66

--------------------------------------------------------------------------
(* Machine facts *)

\* Bits of int / uint32: the type of "1 << ...", of "const uint32 mask" and of
\* the parameter of __builtin_ffs.
IntBits == 32

\* sizeof(T) of the word types the templates are instantiated with.
SizeofTs == {1, 2, 4, 8}

\* The array lengths N the templates are instantiated with.
WordCounts == {1, 2, 3}

\* (sizeof(T) << 3)
WordBits(sz) == sz * 8

W == WordBits(sizeofT)

NoWord == {}

Range(f) == {f[i] : i \in DOMAIN f}

MinOf(S) == CHOOSE x \in S : \A y \in S : x <= y

ZeroField(n) == [i \in 0..(n - 1) |-> NoWord]

\* The absolute indices of the set bits of a wide bitfield.
SetBits(field, w) == UNION {{i * w + o : o \in field[i]} : i \in DOMAIN field}

--------------------------------------------------------------------------
(* palInlineFuncs.h: wide bitfields *)

\* const uint32 index = (bit / (sizeof(T) << 3));
WordIndex(bit, w) == bit \div w

\* The outcomes of "1 << s" on an int when s >= 32, which is undefined: the
\* hardware shift uses s mod 32, or the compiler folds the value to 0.
ShiftOutcomes(s) == IF s < IntBits THEN {{s}} ELSE {{s % IntBits}, NoWord}

\* The mask with sizeof(T) taken for the word's width in bits.
BitMasksNoShift(bit, w) == ShiftOutcomes(bit % (w \div 8))

\* const uint32 mask = (1 << (bit & ((sizeof(T) << 3) - 1)));
BitMasks(bit, w) == ShiftOutcomes(bit % w)

\* return (0 != (bitfield[index] & mask));
WideBitfieldIsSet(field, bit, w, mask) == (field[WordIndex(bit, w)] \cap mask) # NoWord

\* bitfield[index] |= mask;
WideBitfieldSetBit(field, bit, w, mask) ==
    [field EXCEPT ![WordIndex(bit, w)] = @ \cup mask]

\* bitfield[index] &= ~mask;   ~mask is a uint32: converted to a wider T its
\* upper bits are zero.
WideBitfieldClearBit(field, bit, w, mask) ==
    [field EXCEPT ![WordIndex(bit, w)] = @ \cap ((0..(IntBits - 1)) \ mask)]

\* __builtin_ffs(int): one plus the index of the least significant set bit of
\* the argument converted to int, 0 when that is zero.
BuiltinFfs(word) ==
    LET low == word \cap (0..(IntBits - 1))
    IN  IF low = NoWord THEN 0 ELSE MinOf(low) + 1

\* uint32 index = 0; while ((mask[index] == 0) && (++index < N));
RECURSIVE AnyBitLoop(_, _, _)
AnyBitLoop(mask, n, index) ==
    IF mask[index] = NoWord
    THEN IF index + 1 < n THEN AnyBitLoop(mask, n, index + 1) ELSE index + 1
    ELSE index

\* while (result == true) { ... }: a read of mask[maskIndex] with
\* maskIndex >= N yields the word "beyond" that happens to follow the array.
RECURSIVE ScanLoop(_, _, _, _, _)
ScanLoop(mask, n, w, maskIndex, beyond) ==
    LET word == IF maskIndex < n THEN mask[maskIndex] ELSE beyond
        indexPlusOne == BuiltinFfs(word)
    IN  IF indexPlusOne = 0
        THEN IF maskIndex + 1 < n
             THEN ScanLoop(mask, n, w, maskIndex + 1, beyond)
             ELSE [result |-> FALSE, pIndex |-> 0]
        ELSE [result |-> TRUE, pIndex |-> (indexPlusOne - 1) + (maskIndex * w)]

\* The scan without its first loop, the test that some word is non-zero.
WideBitMaskScanForwardUnchecked(idx, mask, n, w, beyond) ==
    LET maskIndex == idx \div w
        found == ScanLoop(mask, n, w, maskIndex, beyond)
    IN  [result |-> found.result, pIndex |-> found.pIndex, oob |-> maskIndex >= n]

\* uint32 maskIndex = *pIndex / (sizeof(T) << 3); the any-bit loop; if
\* (index < N) the search loop, which writes *pIndex, else result = false.
WideBitMaskScanForward(idx, mask, n, w, beyond) ==
    LET maskIndex == idx \div w
        index == AnyBitLoop(mask, n, 0)
        found == ScanLoop(mask, n, w, maskIndex, beyond)
    IN  IF index < n
        THEN [result |-> found.result, pIndex |-> found.pIndex, oob |-> maskIndex >= n]
        ELSE [result |-> FALSE, pIndex |-> idx, oob |-> FALSE]

--------------------------------------------------------------------------
(* palDbgPrint.h: the types of the debug print interface *)

\* enum DbgPrintCategory
DbgPrintCategories ==
    {"DbgPrintCatInfoMsg", "DbgPrintCatWarnMsg", "DbgPrintCatErrorMsg", "DbgPrintCatScMsg"}

\* enum class DbgPrintMode
DbgPrintModes == {"Disable", "Print", "File"}

\* enum DbgPrintStyle: bit 0 skips the prefix, bit 1 skips the CR-LF.
DbgPrintStyleDefault == 0

DbgPrintStyleNoPrefix == 1

DbgPrintStyleNoCrLf == 2

DbgPrintStyleNoPrefixNoCrLf == 3

DbgPrintStyles ==
    {DbgPrintStyleDefault, DbgPrintStyleNoPrefix, DbgPrintStyleNoCrLf,
     DbgPrintStyleNoPrefixNoCrLf}

NullFunc == "nullptr"

\* The callback functions and user-data pointers the callers install.
CallbackFuncs == {"cbA", "cbB"}

Userdatas == {"ud1", "ud2"}

\* struct DbgPrintCallback
DbgPrintCallbacks ==
    [pCallbackFunc : CallbackFuncs \cup {NullFunc}, pUserdata : Userdatas]

NoCallback == [pCallbackFunc |-> NullFunc, pUserdata |-> "ud1"]

\* The formatted messages of the call sites.
Messages == {"msg"}

NoCall ==
    [op |-> "none", category |-> "none", mode |-> "none", style |-> 0,
     text |-> <<>>, invoked |-> <<>>, output |-> {}]

IdleDbg ==
    /\ dbgPrintTable = [c \in DbgPrintCategories |-> "Disable"]
    /\ dbgPrintCallback = NoCallback
    /\ callbackArg = NoCallback
    /\ dbgLast = NoCall

NoHash == [hi |-> 0, lo |-> 0]

IdleHash ==
    /\ charSigned = FALSE
    /\ pStr = <<>>
    /\ hashCall = "none"
    /\ hash = NoHash

IdleAlign ==
    /\ alignBits = 8
    /\ value = 0
    /\ alignLog2 = 0
    /\ alignCall = "none"
    /\ aligned = 0
    /\ realigned = 0

IdlePad ==
    /\ padBits = 8
    /\ padValue = 0
    /\ padRet = 0
    /\ padPc = "call"

IdlePop ==
    /\ popValue = NoHash
    /\ popCall = "none"
    /\ popCount = NoHash

IdleLog ==
    /\ ulongBits = 64
    /\ logBits = 8
    /\ u = {}
    /\ logValue = 0
    /\ logPc = "call"

IdleMath == IdlePad /\ IdlePop /\ IdleLog

--------------------------------------------------------------------------
(* Inputs of the bitfield calls *)

\* Positions inside a word the calls are tried at: the ends of the word, one
\* inside it, and the first one past the int the shifts and __builtin_ffs
\* work on.
OffsetSamples(w) == {0, 6, w - 1} \cup ({IntBits} \cap (0..(w - 1)))

SampleBits(n, w) == {i * w + o : i \in 0..(n - 1), o \in OffsetSamples(w)}

\* Values of *pIndex a scan is entered with: the first and the last bit of
\* every word.
SampleStarts(n, w) == {i * w + o : i \in 0..(n - 1), o \in {0, w - 1}}

AllBits(n, w) == 0..(n * w - 1)

\* Arrays as the caller may hand them over: zero-initialised, or with one
\* bit set by the caller's own initialiser.
InitialFields(n, w) ==
    {ZeroField(n)} \cup
    {[ZeroField(n) EXCEPT ![i] = {o}] : i \in 0..(n - 1), o \in OffsetSamples(w)}

\* What may follow the array in memory.
BeyondWords == {NoWord, {3}}

IdleBits ==
    /\ sizeofT = 4
    /\ N = 1
    /\ initial = ZeroField(1)
    /\ bitfield = initial
    /\ expected = {}
    /\ nOps = 0
    /\ pIndex = 0
    /\ call = "none"
    /\ arg = 0
    /\ ret = FALSE
    /\ hits = <<>>
    /\ oobRead = FALSE

InitBits ==
    /\ component = "bits"
    /\ IdleMath
    /\ IdleDbg
    /\ IdleHash
    /\ IdleAlign
    /\ sizeofT \in SizeofTs
    /\ N \in WordCounts
    /\ initial \in InitialFields(N, WordBits(sizeofT))
    /\ bitfield = initial
    /\ expected = SetBits(initial, WordBits(sizeofT))
    /\ nOps = 0
    /\ pIndex = 0
    /\ call = "none"
    /\ arg = 0
    /\ ret = FALSE
    /\ hits = <<>>
    /\ oobRead = FALSE

\* The scenarios build the bitfield first and scan it afterwards: a scan
\* writes nothing to the array, so the order loses no contents.
Building == call \notin {"Scan", "IterStart", "IterNext"}

SetBitCall(bit) ==
    /\ component \in {"bits", "roundtrip"}
    /\ Building
    /\ nOps < MaxBitOps
    /\ \E mask \in BitMasks(bit, W) :
          bitfield' = WideBitfieldSetBit(bitfield, bit, W, mask)
    /\ expected' = expected \cup {bit}
    /\ nOps' = nOps + 1
    /\ call' = "SetBit"
    /\ arg' = bit
    /\ ret' = FALSE
    /\ hits' = <<>>
    /\ UNCHANGED <<dbgVars, hashVars, alignVars, mathVars, component, sizeofT, N, initial, pIndex, oobRead>>

ClearBitCall(bit) ==
    /\ component \in {"bits", "roundtrip"}
    /\ Building
    /\ nOps < MaxBitOps
    /\ \E mask \in BitMasks(bit, W) :
          bitfield' = WideBitfieldClearBit(bitfield, bit, W, mask)
    /\ expected' = expected \ {bit}
    /\ nOps' = nOps + 1
    /\ call' = "ClearBit"
    /\ arg' = bit
    /\ ret' = FALSE
    /\ hits' = <<>>
    /\ UNCHANGED <<dbgVars, hashVars, alignVars, mathVars, component, sizeofT, N, initial, pIndex, oobRead>>

IsSetCall(bit) ==
    /\ component \in {"bits", "roundtrip"}
    /\ Building
    /\ \E mask \in BitMasks(bit, W) :
          ret' = WideBitfieldIsSet(bitfield, bit, W, mask)
    /\ call' = "IsSet"
    /\ arg' = bit
    /\ hits' = <<>>
    /\ UNCHANGED <<dbgVars, hashVars, alignVars, mathVars, component, sizeofT, N, initial, bitfield, expected, nOps, pIndex, oobRead>>

\* One call of WideBitMaskScanForward(&idx, bitfield) with idx == start; a hit
\* is appended to the hits "seen" so far.
Scan(name, start, seen) ==
    \E beyond \in (IF start \div W >= N THEN BeyondWords ELSE {NoWord}) :
        LET r == WideBitMaskScanForward(start, bitfield, N, W, beyond)
        IN  /\ call' = name
            /\ arg' = start
            /\ ret' = r.result
            /\ pIndex' = r.pIndex
            /\ oobRead' = (oobRead \/ r.oob)
            /\ hits' = IF r.result THEN Append(seen, r.pIndex) ELSE seen

\* A scan from a start position of the caller's choice.
ScanCall(start) ==
    /\ component = "bits"
    /\ Scan("Scan", start, <<>>)
    /\ UNCHANGED <<dbgVars, hashVars, alignVars, mathVars, component, sizeofT, N, initial, bitfield, expected, nOps>>

\* uint32 idx = 0; WideBitMaskScanForward(&idx, mask): the first call of an
\* iteration over the set bits.
IterStart ==
    /\ component = "bits"
    /\ Scan("IterStart", 0, <<>>)
    /\ UNCHANGED <<dbgVars, hashVars, alignVars, mathVars, component, sizeofT, N, initial, bitfield, expected, nOps>>

\* The caller advances idx past the previous hit and calls again.
IterNext ==
    /\ component = "bits"
    /\ call \in {"IterStart", "IterNext"}
    /\ ret = TRUE
    /\ Len(hits) < MaxHits
    /\ Scan("IterNext", pIndex + 1, hits)
    /\ UNCHANGED <<dbgVars, hashVars, alignVars, mathVars, component, sizeofT, N, initial, bitfield, expected, nOps>>

\* The 3-word, 32-bit-word bitfield, zero-initialised.
InitRoundTrip ==
    /\ component = "roundtrip"
    /\ IdleMath
    /\ IdleDbg
    /\ IdleHash
    /\ IdleAlign
    /\ sizeofT = 4
    /\ N = 3
    /\ initial = ZeroField(3)
    /\ bitfield = initial
    /\ expected = SetBits(initial, WordBits(sizeofT))
    /\ nOps = 0
    /\ pIndex = 0
    /\ call = "none"
    /\ arg = 0
    /\ ret = FALSE
    /\ hits = <<>>
    /\ oobRead = FALSE

NextBits ==
    \/ \E bit \in SampleBits(N, W) : SetBitCall(bit)
    \/ \E bit \in SampleBits(N, W) : ClearBitCall(bit)
    \/ \E start \in SampleStarts(N, W) : ScanCall(start)
    \/ IterStart
    \/ IterNext

\* The first call of the round trip takes any bit of the bitfield, the later
\* ones a sampled bit.
RoundTripBits == IF nOps = 0 THEN AllBits(N, W) ELSE SampleBits(N, W)

NextRoundTrip ==
    \/ \E bit \in RoundTripBits : SetBitCall(bit)
    \/ \E bit \in RoundTripBits : ClearBitCall(bit)
    \/ \E bit \in SampleBits(N, W) : IsSetCall(bit)

SpecBits == InitBits /\ [][NextBits]_vars

SpecRoundTrip == InitRoundTrip /\ [][NextRoundTrip]_vars

--------------------------------------------------------------------------
(* palDbgPrint.h: debug print routing.  The header declares the entry       *)
(* points; their bodies are modelled from the specification's section 4.2.  *)

\* The finished text: the formatted message with the category's prefix and
\* the line terminator, unless the style flags skip them.
FinishedText(category, style, msg) ==
    (IF style \in {DbgPrintStyleNoPrefix, DbgPrintStyleNoPrefixNoCrLf}
     THEN <<>> ELSE <<"prefix", category>>)
    \o <<msg>>
    \o (IF style \in {DbgPrintStyleNoCrLf, DbgPrintStyleNoPrefixNoCrLf}
        THEN <<>> ELSE <<"CRLF">>)

\* The sinks a mode writes to.
ModeOutput(mode) ==
    CASE mode = "Disable" -> {}
      [] mode = "Print"   -> {"print"}
      [] mode = "File"    -> {"file"}

\* The callback ignored: the print goes by the mode although one is installed.
RouteIgnoringCallback(callback, mode, category, text) ==
    [invoked |-> <<>>, output |-> ModeOutput(mode)]

\* The callback invoked and the mode followed as well.
RouteAlsoByMode(callback, mode, category, text) ==
    [invoked |-> IF callback.pCallbackFunc # NullFunc
                 THEN <<[func |-> callback.pCallbackFunc,
                         userdata |-> callback.pUserdata,
                         category |-> category, text |-> text]>>
                 ELSE <<>>,
     output |-> ModeOutput(mode)]

\* DbgVPrintf after formatting: with a callback installed, invoke it with
\* (category, finished text) and return; otherwise dispatch by the mode.
Route(callback, mode, category, text) ==
    IF callback.pCallbackFunc # NullFunc
    THEN [invoked |-> <<[func |-> callback.pCallbackFunc,
                         userdata |-> callback.pUserdata,
                         category |-> category, text |-> text]>>,
          output |-> {}]
    ELSE [invoked |-> <<>>, output |-> ModeOutput(mode)]

\* The assert print filtered by the mode like any other print.
AssertModeFiltered(mode) == mode

\* AssertPrintf is never filtered by the mode: a Disable entry does not
\* discard the message, which then goes to the default diagnostic output.
AssertMode(mode) == IF mode = "Disable" THEN "Print" ELSE mode

\* SetDbgPrintMode writing every category's entry.
TableAllSet(table, category, mode) == [c \in DOMAIN table |-> mode]

\* SetDbgPrintMode(category, mode)
TableAfterSet(table, category, mode) == [table EXCEPT ![category] = mode]

\* SetDbgPrintCallback that keeps the installed callback when handed a null
\* function pointer.
CallbackKeptOnNull(old, callback) ==
    IF callback.pCallbackFunc = NullFunc THEN old ELSE callback

\* SetDbgPrintCallback(callback): a single assignment of the pair.
CallbackAfterSet(old, callback) == callback

InitDbg ==
    /\ component = "dbg"
    /\ IdleMath
    /\ IdleBits
    /\ IdleDbg
    /\ IdleHash
    /\ IdleAlign

SetDbgPrintMode(category, mode) ==
    /\ component = "dbg"
    /\ dbgPrintTable' = TableAfterSet(dbgPrintTable, category, mode)
    /\ dbgLast' = [NoCall EXCEPT !.op = "SetDbgPrintMode", !.category = category,
                                 !.mode = mode]
    /\ UNCHANGED <<hashVars, alignVars, mathVars, component, bitVars, dbgPrintCallback, callbackArg>>

SetDbgPrintCallback(callback) ==
    /\ component = "dbg"
    /\ dbgPrintCallback' = CallbackAfterSet(dbgPrintCallback, callback)
    /\ callbackArg' = callback
    /\ dbgLast' = [NoCall EXCEPT !.op = "SetDbgPrintCallback"]
    /\ UNCHANGED <<hashVars, alignVars, mathVars, component, bitVars, dbgPrintTable>>

\* The shared body of the print entry points.
PrintCall(op, category, mode, style, msg) ==
    LET text == FinishedText(category, style, msg)
        r == Route(dbgPrintCallback, mode, category, text)
    IN  /\ component = "dbg"
        /\ dbgLast' = [op |-> op, category |-> category, mode |-> "none",
                       style |-> style, text |-> text, invoked |-> r.invoked,
                       output |-> r.output]
        /\ UNCHANGED <<hashVars, alignVars, mathVars, component, bitVars, dbgPrintTable, dbgPrintCallback, callbackArg>>

DbgVPrintf(category, style, msg) ==
    PrintCall("DbgVPrintf", category, dbgPrintTable[category], style, msg)

\* DbgPrintf starts the argument list and shares DbgVPrintf's body.
DbgPrintf(category, style, msg) ==
    PrintCall("DbgPrintf", category, dbgPrintTable[category], style, msg)

\* Implied category DbgPrintCatErrorMsg.
ErrPrintf(msg) ==
    PrintCall("ErrPrintf", "DbgPrintCatErrorMsg", dbgPrintTable["DbgPrintCatErrorMsg"],
              DbgPrintStyleDefault, msg)

\* Implied category DbgPrintCatWarnMsg.
WarnPrintf(msg) ==
    PrintCall("WarnPrintf", "DbgPrintCatWarnMsg", dbgPrintTable["DbgPrintCatWarnMsg"],
              DbgPrintStyleDefault, msg)

\* The wrapper's fixed category is not named: each one is a possible build.
AssertPrintf(msg) ==
    \E category \in DbgPrintCategories :
        PrintCall("AssertPrintf", category, AssertMode(dbgPrintTable[category]),
                  DbgPrintStyleDefault, msg)

NextDbg ==
    \/ \E c \in DbgPrintCategories, m \in DbgPrintModes : SetDbgPrintMode(c, m)
    \/ \E cb \in DbgPrintCallbacks : SetDbgPrintCallback(cb)
    \/ \E c \in DbgPrintCategories, st \in DbgPrintStyles, msg \in Messages :
          DbgPrintf(c, st, msg)
    \/ \E c \in DbgPrintCategories, st \in DbgPrintStyles, msg \in Messages :
          DbgVPrintf(c, st, msg)
    \/ \E msg \in Messages : ErrPrintf(msg)
    \/ \E msg \in Messages : WarnPrintf(msg)
    \/ \E msg \in Messages : AssertPrintf(msg)

SpecDbg == InitDbg /\ [][NextDbg]_vars

--------------------------------------------------------------------------
(* Unsigned machine arithmetic.  A uint32 is kept as two 16-bit halves       *)
(* [hi, lo] so that every intermediate product stays below 2^31.             *)

RECURSIVE Pow2(_)
Pow2(k) == IF k = 0 THEN 1 ELSE 2 * Pow2(k - 1)

\* 2^16
Half == Pow2(16)

\* a ^ b on two n-bit values
RECURSIVE BitXor(_, _, _)
BitXor(a, b, n) ==
    IF n = 0 THEN 0
    ELSE (((a % 2) + (b % 2)) % 2) + 2 * BitXor(a \div 2, b \div 2, n - 1)

\* a & b on two n-bit values
RECURSIVE BitAnd(_, _, _)
BitAnd(a, b, n) ==
    IF n = 0 THEN 0
    ELSE ((a % 2) * (b % 2)) + 2 * BitAnd(a \div 2, b \div 2, n - 1)

\* ~a on an n-bit value
BitNot(a, n) == (Pow2(n) - 1) - a

Halves(x) == [hi |-> x \div Half, lo |-> x % Half]

Xor32(x, y) == [hi |-> BitXor(x.hi, y.hi, 16), lo |-> BitXor(x.lo, y.lo, 16)]

\* x * y modulo 2^32
Mul32(x, y) ==
    LET low == x.lo * y.lo
    IN  [hi |-> (x.hi * y.lo + x.lo * y.hi + low \div Half) % Half,
         lo |-> low % Half]

--------------------------------------------------------------------------
(* palInlineFuncs.h: HashString *)

\* const uint32 fnvPrime = 16777619;
fnvPrime == 16777619

\* const uint32 fnvOffset = 2166136261;  (0x811C9DC5, as its two halves)
fnvOffsetHi == 33052

fnvOffsetLo == 40389

fnvOffset == [hi |-> fnvOffsetHi, lo |-> fnvOffsetLo]

\* static_cast<uint32>(pStr[i]) with every char taken as unsigned.
CharUnsigned(byte, isSigned) == [hi |-> 0, lo |-> byte]

\* static_cast<uint32>(pStr[i]): pStr is a const char*, and a plain char that
\* is signed and holds a byte >= 0x80 is negative and converts by sign
\* extension.
CharToUint32(byte, isSigned) ==
    IF isSigned /\ byte >= 128
    THEN [hi |-> Half - 1, lo |-> (Half - 256) + byte]
    ELSE [hi |-> 0, lo |-> byte]

\* for (uint32 i = 0; i < strSize; i++) { hash ^= ...; hash *= fnvPrime; }
RECURSIVE HashLoop(_, _, _, _)
HashLoop(str, i, h, isSigned) ==
    IF i > Len(str) THEN h
    ELSE HashLoop(str, i + 1,
                  Mul32(Xor32(h, CharToUint32(str[i], isSigned)), Halves(fnvPrime)),
                  isSigned)

HashString(str, isSigned) == HashLoop(str, 1, fnvOffset, isSigned)

\* The byte values the strings are made of.
ByteSamples == {0, 1, 2, 65, 97, 122, 126, 127, 128, 129, 200, 254, 255}

RECURSIVE SeqsUpTo(_, _)
SeqsUpTo(S, n) ==
    IF n = 0 THEN {<<>>}
    ELSE LET shorter == SeqsUpTo(S, n - 1)
         IN  shorter \cup {Append(q, x) : q \in shorter, x \in S}

InitHash ==
    /\ component = "hash"
    /\ IdleMath
    /\ IdleBits
    /\ IdleDbg
    /\ IdleAlign
    /\ charSigned \in BOOLEAN
    /\ pStr \in (SeqsUpTo(ByteSamples, MaxStrLen) \ {<<>>})
    /\ hashCall = "none"
    /\ hash = NoHash

\* HashString(pStr, strSize) with strSize > 0
HashStringCall ==
    /\ component = "hash"
    /\ hashCall = "none"
    /\ hashCall' = "HashString"
    /\ hash' = HashString(pStr, charSigned)
    /\ UNCHANGED <<component, bitVars, dbgVars, alignVars, mathVars, charSigned, pStr>>

\* A second call on the same bytes.
HashStringAgain ==
    /\ component = "hash"
    /\ hashCall = "HashString"
    /\ hashCall' = "HashStringAgain"
    /\ hash' = HashString(pStr, charSigned)
    /\ UNCHANGED <<component, bitVars, dbgVars, alignVars, mathVars, charSigned, pStr>>

NextHash == HashStringCall \/ HashStringAgain

SpecHash == InitHash /\ [][NextHash]_vars

--------------------------------------------------------------------------
(* palInlineFuncs.h: Pow2Align *)

\* static_cast<T>(alignment) of the uint64 alignment 2^k
CastT(k, bits) == IF k < bits THEN Pow2(k) ELSE 0

\* The rounding with "+ alignment" for "+ alignment - 1".
Pow2AlignOffByOne(v, k, bits) ==
    LET a == CastT(k, bits)
        m == Pow2(bits)
    IN  BitAnd((v + a) % m, BitNot((a - 1) % m, bits), bits)

\* return ((value + static_cast<T>(alignment) - 1) & ~(static_cast<T>(alignment) - 1));
\* converted to the unsigned type T, that is modulo 2^bits.
Pow2Align(v, k, bits) ==
    LET a == CastT(k, bits)
        m == Pow2(bits)
    IN  BitAnd((v + a - 1) % m, BitNot((a - 1) % m, bits), bits)

\* The widths of the unsigned types T the model instantiates Pow2Align with.
AlignWidths == {8, 16}

\* The values tried: those within 130 of either end of T's range (all of an
\* 8-bit T).
AlignValues(bits) == {v \in 0..(Pow2(bits) - 1) : v < 130 \/ v >= Pow2(bits) - 130}

InitAlign ==
    /\ component = "align"
    /\ IdleMath
    /\ IdleBits
    /\ IdleDbg
    /\ IdleHash
    /\ alignBits \in AlignWidths
    /\ value \in AlignValues(alignBits)
    /\ alignLog2 \in 0..MaxAlignLog2
    /\ alignCall = "none"
    /\ aligned = 0
    /\ realigned = 0

\* Pow2Align(value, alignment)
Pow2AlignCall ==
    /\ component = "align"
    /\ alignCall = "none"
    /\ alignCall' = "Pow2Align"
    /\ aligned' = Pow2Align(value, alignLog2, alignBits)
    /\ UNCHANGED <<component, bitVars, dbgVars, hashVars, mathVars, alignBits, value, alignLog2,
                   realigned>>

\* Pow2Align(Pow2Align(value, alignment), alignment)
Pow2AlignAgain ==
    /\ component = "align"
    /\ alignCall = "Pow2Align"
    /\ alignCall' = "Pow2AlignAgain"
    /\ realigned' = Pow2Align(aligned, alignLog2, alignBits)
    /\ UNCHANGED <<component, bitVars, dbgVars, hashVars, mathVars, alignBits, value, alignLog2,
                   aligned>>

NextAlign == Pow2AlignCall \/ Pow2AlignAgain

SpecAlign == InitAlign /\ [][NextAlign]_vars

--------------------------------------------------------------------------
(* palInlineFuncs.h: IsPowerOfTwo, Pow2Pad *)

\* return (value == 0) ? false : ((value & (value - 1)) == 0);   on a uint64
IsPowerOfTwo(v) == IF v = 0 THEN FALSE ELSE BitAnd(v, v - 1, 64) = 0

\* The widths of the unsigned types T the model instantiates Pow2Pad with.
PadWidths == {8, 16}

\* The values tried: those within 130 of either end of T's range (all of an
\* 8-bit T), and those next to a power of two.
PadValues(bits) ==
    (0..129 \cup (Pow2(bits) - 130)..(Pow2(bits) - 1)
        \cup UNION {{Pow2(k) - 1, Pow2(k), Pow2(k) + 1} : k \in 0..(bits - 1)})
    \cap 0..(Pow2(bits) - 1)

InitPad ==
    /\ component = "pad"
    /\ IdleBits
    /\ IdleDbg
    /\ IdleHash
    /\ IdleAlign
    /\ IdlePop
    /\ IdleLog
    /\ padBits \in PadWidths
    /\ padValue \in PadValues(padBits)
    /\ padRet = 0
    /\ padPc = "call"

\* T ret = 1;  if (IsPowerOfTwo(value)) { ret = value; } else { while ...
Pow2PadCall ==
    /\ component = "pad"
    /\ padPc = "call"
    /\ padRet' = (IF IsPowerOfTwo(padValue) THEN padValue ELSE 1)
    /\ padPc' = (IF IsPowerOfTwo(padValue) THEN "return" ELSE "while")
    /\ UNCHANGED <<component, bitVars, dbgVars, hashVars, alignVars, popVars, logVars,
                   padBits, padValue>>

\* while (ret < value) { ret <<= 1; }   one turn of the loop; ret is a T, so
\* the shifted value is kept modulo 2^padBits
Pow2PadShift ==
    /\ component = "pad"
    /\ padPc = "while"
    /\ padRet < padValue
    /\ padRet' = (padRet * 2) % Pow2(padBits)
    /\ UNCHANGED <<component, bitVars, dbgVars, hashVars, alignVars, popVars, logVars,
                   padBits, padValue, padPc>>

\* the loop test fails;  return ret;
Pow2PadReturn ==
    /\ component = "pad"
    /\ padPc = "while"
    /\ ~(padRet < padValue)
    /\ padPc' = "return"
    /\ UNCHANGED <<component, bitVars, dbgVars, hashVars, alignVars, popVars, logVars,
                   padBits, padValue, padRet>>

NextPad == Pow2PadCall \/ Pow2PadShift \/ Pow2PadReturn

SpecPad == InitPad /\ [][NextPad]_vars

--------------------------------------------------------------------------
(* palInlineFuncs.h: CountSetBits *)

And32(x, y) == [hi |-> BitAnd(x.hi, y.hi, 16), lo |-> BitAnd(x.lo, y.lo, 16)]

\* x + y modulo 2^32
Add32(x, y) ==
    LET low == x.lo + y.lo
    IN  [hi |-> (x.hi + y.hi + low \div Half) % Half, lo |-> low % Half]

\* x - y modulo 2^32
Sub32(x, y) ==
    LET borrow == IF x.lo < y.lo THEN 1 ELSE 0
    IN  [hi |-> (x.hi + Half - y.hi - borrow) % Half,
         lo |-> (x.lo + Half - y.lo) % Half]

\* x >> n on a uint32, 0 <= n < 32
Shr32(x, n) ==
    IF n < 16
    THEN [hi |-> x.hi \div Pow2(n),
          lo |-> (x.lo \div Pow2(n)) + (x.hi % Pow2(n)) * Pow2(16 - n)]
    ELSE [hi |-> 0, lo |-> x.hi \div Pow2(n - 16)]

\* The last line without its "& 0x0F0F0F0F".
CountSetBitsUnmasked(val) ==
    LET x1 == Sub32(val, And32(Shr32(val, 1), Halves(1431655765)))
        x2 == Add32(And32(x1, Halves(858993459)),
                    And32(Shr32(x1, 2), Halves(858993459)))
    IN  Shr32(Mul32(Add32(x2, Shr32(x2, 4)), Halves(16843009)), 24)

\* x = x - ((x >> 1) & 0x55555555);
\* x = (x & 0x33333333) + ((x >> 2) & 0x33333333);
\* x = (((x + (x >> 4)) & 0x0F0F0F0F) * 0x01010101) >> 24;
CountSetBits(val) ==
    LET x1 == Sub32(val, And32(Shr32(val, 1), Halves(1431655765)))
        x2 == Add32(And32(x1, Halves(858993459)),
                    And32(Shr32(x1, 2), Halves(858993459)))
    IN  Shr32(Mul32(And32(Add32(x2, Shr32(x2, 4)), Halves(252645135)),
                    Halves(16843009)), 24)

\* The 16-bit halves the arguments are put together from: the two ends of the
\* range, alternating bit patterns, and each single bit, each run of low
\* bits and each single gap.
HalfSamples ==
    {0, 1, 2, 3, 255, 256, 4660, 13107, 21845, 43690, 3855, 61680, 65534, 65535}
    \cup {Pow2(k) : k \in 0..15}
    \cup {Pow2(k) - 1 : k \in 0..16}
    \cup {65535 - Pow2(k) : k \in 0..15}

InitPop ==
    /\ component = "popcount"
    /\ IdleBits
    /\ IdleDbg
    /\ IdleHash
    /\ IdleAlign
    /\ IdlePad
    /\ IdleLog
    /\ popValue \in [hi : HalfSamples, lo : HalfSamples]
    /\ popCall = "none"
    /\ popCount = NoHash

\* CountSetBits(value)
CountSetBitsCall ==
    /\ component = "popcount"
    /\ popCall = "none"
    /\ popCall' = "CountSetBits"
    /\ popCount' = CountSetBits(popValue)
    /\ UNCHANGED <<component, bitVars, dbgVars, hashVars, alignVars, padVars, logVars,
                   popValue>>

NextPop == CountSetBitsCall

SpecPop == InitPop /\ [][NextPop]_vars

--------------------------------------------------------------------------
(* palInlineFuncs.h: Log2, CeilLog2.  The argument u may be a 64-bit value, *)
(* so it is kept as the set of the positions of its one bits.               *)

MaxOf(S) == CHOOSE x \in S : \A y \in S : y <= x

\* a < b on two unsigned values
LessBits(a, b) == a # b /\ MaxOf((a \ b) \cup (b \ a)) \in b

\* The widths unsigned long has: 64 bits (LP64), 32 bits (ILP32, LLP64).
ULongWidths == {32, 64}

\* 0x1ul << s: bit s below the width of unsigned long; undefined from that
\* width on, where the builds give the shift by s modulo the width, or 0.
ULongShiftOutcomes(s, l) == IF s < l THEN {{s}} ELSE {{s % l}, NoWord}

\* while (u > 1) { ++logValue; u >>= 1; }  return logValue;
RECURSIVE Log2Loop(_, _)
Log2Loop(v, log) ==
    IF LessBits({0}, v)
    THEN Log2Loop({b - 1 : b \in v \ {0}}, log + 1)
    ELSE log

\* uint32 logValue = 0; ...
Log2(v) == Log2Loop(v, 0)

\* The widths of the unsigned types T the model instantiates CeilLog2 with.
LogWidths == {8, 16, 32, 64}

\* The values tried: 0, all ones, each power of two, and each power of two
\* with bit 0 or with the bit below it added.
LogValues(bits) ==
    {{}, 0..(bits - 1)}
    \cup {{k} : k \in 0..(bits - 1)}
    \cup {{k, 0} : k \in 0..(bits - 1)}
    \cup {{k, k - 1} : k \in 1..(bits - 1)}

InitLog ==
    /\ component = "log"
    /\ IdleBits
    /\ IdleDbg
    /\ IdleHash
    /\ IdleAlign
    /\ IdlePad
    /\ IdlePop
    /\ ulongBits \in ULongWidths
    /\ logBits \in LogWidths
    /\ u \in LogValues(logBits)
    /\ logValue = 0
    /\ logPc = "call"

\* uint32 logValue = 0;
CeilLog2Call ==
    /\ component = "log"
    /\ logPc = "call"
    /\ logValue' = 0
    /\ logPc' = "while"
    /\ UNCHANGED <<component, bitVars, dbgVars, hashVars, alignVars, padVars, popVars,
                   ulongBits, logBits, u>>

\* while ((0x1ul << logValue) < u) { logValue++; }   one turn of the loop
CeilLog2Step ==
    /\ component = "log"
    /\ logPc = "while"
    /\ logValue < MaxLogValue
    /\ \E shifted \in ULongShiftOutcomes(logValue, ulongBits) : LessBits(shifted, u)
    /\ logValue' = logValue + 1
    /\ UNCHANGED <<component, bitVars, dbgVars, hashVars, alignVars, padVars, popVars,
                   ulongBits, logBits, u, logPc>>

\* the loop test fails;  return logValue;
CeilLog2Return ==
    /\ component = "log"
    /\ logPc = "while"
    /\ \E shifted \in ULongShiftOutcomes(logValue, ulongBits) : ~LessBits(shifted, u)
    /\ logPc' = "return"
    /\ UNCHANGED <<component, bitVars, dbgVars, hashVars, alignVars, padVars, popVars,
                   ulongBits, logBits, u, logValue>>

NextLog == CeilLog2Call \/ CeilLog2Step \/ CeilLog2Return

SpecLog == InitLog /\ [][NextLog]_vars

--------------------------------------------------------------------------
(* The library as a whole: a behaviour exercises one of its parts. *)

Init ==
    \/ InitBits \/ InitRoundTrip \/ InitDbg \/ InitHash \/ InitAlign
    \/ InitPad \/ InitPop \/ InitLog

Next ==
    \/ (component = "bits" /\ NextBits)
    \/ (component = "roundtrip" /\ NextRoundTrip)
    \/ NextDbg
    \/ NextHash
    \/ NextAlign
    \/ NextPad
    \/ NextPop
    \/ NextLog

Spec == Init /\ [][Next]_vars

--------------------------------------------------------------------------
(* Claims about the wide bitfield *)

ScanCalls == {"Scan", "IterStart", "IterNext"}

IterCalls == {"IterStart", "IterNext"}

StrictlyIncreasing(seq) == \A i, j \in DOMAIN seq : i < j => seq[i] < seq[j]

\* C1: iterating the set bits of a bitfield of 32-bit words with
\* WideBitMaskScanForward: with exactly one bit b set, the call with
\* *pIndex = 0 returns true with *pIndex = b and the following call with
\* *pIndex = b + 1 returns false; in general the calls report every set bit
\* once, in increasing order, and then return false.
C1_IterateSetBits ==
    LET bits == SetBits(bitfield, W)
    IN  (component = "bits" /\ sizeofT = 4 /\ call \in IterCalls) =>
            /\ (call = "IterStart" /\ Cardinality(bits) = 1) =>
                   (ret = TRUE /\ pIndex \in bits)
            /\ (call = "IterNext" /\ Cardinality(bits) = 1) => ret = FALSE
            /\ StrictlyIncreasing(hits)
            /\ ret = FALSE => Range(hits) = bits

\* C2: a scan entered with *pIndex < N*W returns false exactly when every
\* word with index >= *pIndex / W is zero, and otherwise returns true with
\* *pIndex = j*W + o, j the first non-zero word at or after *pIndex / W and o
\* its least significant set bit.
C2_ScanResult ==
    (component = "bits" /\ call \in ScanCalls /\ arg < N * W) =>
        LET tail == {j \in (arg \div W)..(N - 1) : bitfield[j] # NoWord}
        IN  /\ ret = FALSE <=> tail = {}
            /\ ret = TRUE =>
                   pIndex = MinOf(tail) * W + MinOf(bitfield[MinOf(tail)])

\* C3: on the zero-initialised bitfield of 3 words of 32 bits, after
\* WideBitfieldSetBit(bitfield, i), WideBitfieldIsSet(bitfield, j) is true
\* for j = i and false for every other j in [0, 96).
C3_RoundTrip ==
    (component = "roundtrip" /\ nOps = 1 /\ Cardinality(expected) = 1) =>
        /\ \A j \in AllBits(N, W) : \A mask \in BitMasks(j, W) :
               WideBitfieldIsSet(bitfield, j, W, mask) <=> j \in expected
        /\ call = "IsSet" => (ret <=> arg \in expected)

C3_Witness ==
    /\ component = "roundtrip"
    /\ nOps = 1
    /\ expected = {70}
    /\ call = "IsSet"
    /\ arg = 70
    /\ ret = TRUE

--------------------------------------------------------------------------
(* Claims about the debug print routing *)

PrintfOps == {"DbgPrintf", "DbgVPrintf"}

PrintOps == PrintfOps \cup {"ErrPrintf", "WarnPrintf", "AssertPrintf"}

Installed == dbgPrintCallback.pCallbackFunc # NullFunc

\* The one invocation a print makes of the callback cb.
Invocation(cb, l) ==
    [func |-> cb.pCallbackFunc, userdata |-> cb.pUserdata,
     category |-> l.category, text |-> l.text]

\* C4: with the mode Disable configured for its category, a DbgPrintf or
\* DbgVPrintf call writes to no output and invokes no callback, also when a
\* callback is installed.
C4_DisabledIsSilent ==
    (dbgLast.op \in PrintfOps /\ dbgPrintTable[dbgLast.category] = "Disable") =>
        (dbgLast.output = {} /\ dbgLast.invoked = <<>>)

C6_ModeFrame ==
    [][IF dbgLast'.op = "SetDbgPrintMode"
       THEN /\ dbgPrintTable'[dbgLast'.category] = dbgLast'.mode
            /\ \A c \in DbgPrintCategories \ {dbgLast'.category} :
                  dbgPrintTable'[c] = dbgPrintTable[c]
            /\ dbgPrintCallback' = dbgPrintCallback
       ELSE dbgPrintTable' = dbgPrintTable]_vars

C6_Witness ==
    /\ dbgLast.op = "SetDbgPrintMode"
    /\ dbgLast.mode = "File"
    /\ dbgPrintTable[dbgLast.category] = "File"
    /\ \E c \in DbgPrintCategories : dbgPrintTable[c] = "Print"
    /\ Installed

\* C7: there is at most one callback registration: none at startup, and
\* afterwards the pair handed to the latest SetDbgPrintCallback call; a print
\* invokes that callback alone, with its own user-data, and invokes none
\* when the latest call handed a null function pointer.
C7_SingleCallback ==
    /\ dbgLast.op = "none" => ~Installed
    /\ Installed <=> callbackArg.pCallbackFunc # NullFunc
    /\ Installed => dbgPrintCallback = callbackArg
    /\ dbgLast.op \in PrintOps =>
          dbgLast.invoked = IF callbackArg.pCallbackFunc # NullFunc
                            THEN <<Invocation(callbackArg, dbgLast)>>
                            ELSE <<>>

C7_Witness ==
    /\ dbgLast.op = "DbgVPrintf"
    /\ callbackArg = [pCallbackFunc |-> "cbB", pUserdata |-> "ud2"]
    /\ Len(dbgLast.invoked) = 1
    /\ dbgLast.invoked[1].func = "cbB"
    /\ dbgLast.invoked[1].userdata = "ud2"

\* C8: every AssertPrintf call emits its message, whatever modes the
\* categories have been given, all Disable included.
C8_AssertNeverFiltered ==
    dbgLast.op = "AssertPrintf" => (dbgLast.output # {} \/ dbgLast.invoked # <<>>)

C8_Witness ==
    /\ dbgLast.op = "AssertPrintf"
    /\ \A c \in DbgPrintCategories : dbgPrintTable[c] = "Disable"
    /\ ~Installed
    /\ dbgLast.output = {"print"}

--------------------------------------------------------------------------
(* Claims about HashString and Pow2Align *)

\* 32-bit FNV-1a over bytes taken as their unsigned values 0..255.
RECURSIVE Fnv1a(_, _, _)
Fnv1a(str, i, h) ==
    IF i > Len(str) THEN h
    ELSE Fnv1a(str, i + 1, Mul32(Xor32(h, [hi |-> 0, lo |-> str[i]]), Halves(16777619)))

\* C9: HashString(pStr, strSize) with strSize > 0 is 32-bit FNV-1a of the
\* strSize bytes, each taken as its unsigned value: it starts at 2166136261
\* and for each byte does hash = ((hash XOR byte) * 16777619) mod 2^32; two
\* calls on equal input return equal hashes.
C9_HashIsFnv1a ==
    hashCall # "none" => hash = Fnv1a(pStr, 1, [hi |-> 33052, lo |-> 40389])

\* C10 as first stated: for every v of the unsigned type T and every
\* power-of-two alignment a, Pow2Align(v, a) is a multiple of a, is >= v, and
\* aligning it again returns it unchanged.
C10_AlignedAboveAndIdempotent ==
    /\ alignCall # "none" =>
          (aligned % Pow2(alignLog2) = 0 /\ aligned >= value)
    /\ alignCall = "Pow2AlignAgain" => realigned = aligned

\* C10, amended: for every v of the unsigned type T and every power-of-two
\* alignment a, Pow2Align(v, a) is a multiple of a and aligning it again
\* returns it unchanged; it is >= v whenever v + a - 1 is representable in T
\* (otherwise the sum wraps around and the result is below v).
C10_AlignedAndIdempotent ==
    /\ alignCall # "none" =>
          /\ aligned % Pow2(alignLog2) = 0
          /\ (value + Pow2(alignLog2) - 1 < Pow2(alignBits)) => aligned >= value
    /\ alignCall = "Pow2AlignAgain" => realigned = aligned

C10_Witness ==
    /\ alignCall = "Pow2AlignAgain"
    /\ alignBits = 8
    /\ value = 13
    /\ alignLog2 = 3
    /\ aligned = 16
    /\ realigned = 16

--------------------------------------------------------------------------
(* Pow2Pad *)

\* The smallest power of two that is at least v (1 for v = 0).
SmallestPow2AtLeast(v) ==
    LET k == CHOOSE j \in 0..30 : Pow2(j) >= v /\ \A i \in 0..(j - 1) : Pow2(i) < v
    IN  Pow2(k)

\* The loop is at a test that passes and a body that leaves ret as it is:
\* it never exits.
Pow2PadSpins ==
    /\ padPc = "while"
    /\ padRet < padValue
    /\ (padRet * 2) % Pow2(padBits) = padRet

\* C11: Pow2Pad(v) terminates and returns the smallest power of two >= v for
\* every v >= 1 of the unsigned type T (v itself when v is a power of two),
\* and Pow2Pad(0) returns 1: the loop never reaches a state it cannot leave,
\* and the value returned is that power of two.
C11_Pow2PadRoundsUp ==
    (component = "pad") =>
        /\ ~Pow2PadSpins
        /\ (padPc = "return") =>
               /\ padRet = SmallestPow2AtLeast(padValue)
               /\ IsPowerOfTwo(padValue) => padRet = padValue
               /\ (padValue = 0) => padRet = 1

--------------------------------------------------------------------------
(* CountSetBits *)

\* The number of one bits of v, counted one bit at a time.
RECURSIVE NaiveBits(_)
NaiveBits(v) == IF v = 0 THEN 0 ELSE (v % 2) + NaiveBits(v \div 2)

NaiveCount(x) == NaiveBits(x.hi) + NaiveBits(x.lo)

\* C12: CountSetBits(x) equals the bit-by-bit population count of x for the
\* 32-bit inputs x, all arithmetic modulo 2^32; CountSetBits(0) is 0 and
\* CountSetBits(0xFFFFFFFF) is 32.
C12_CountIsPopulation ==
    (component = "popcount" /\ popCall = "CountSetBits") =>
        /\ popCount = [hi |-> 0, lo |-> NaiveCount(popValue)]
        /\ (popValue = [hi |-> 0, lo |-> 0]) => popCount = [hi |-> 0, lo |-> 0]
        /\ (popValue = [hi |-> 65535, lo |-> 65535]) => popCount = [hi |-> 0, lo |-> 32]

\* CountSetBits(0xFFFFFFFF) has returned 32.
C12_Witness ==
    /\ component = "popcount"
    /\ popCall = "CountSetBits"
    /\ popValue = [hi |-> 65535, lo |-> 65535]
    /\ popCount = [hi |-> 0, lo |-> 32]

--------------------------------------------------------------------------
(* CeilLog2 *)

\* The smallest k with 2^k >= v, for a v below 2^64.
SmallestLogAtLeast(v) ==
    CHOOSE k \in 0..64 : ~LessBits({k}, v) /\ \A j \in 0..(k - 1) : LessBits({j}, v)

\* C13: CeilLog2(u) terminates and returns the smallest k with 2^k >= u for
\* every u of the unsigned type T: logValue, which the loop only counts up,
\* never passes that k, and is that k at the return; it is 0 for u = 0 and
\* u = 1, Log2(u) for a power of two, and Log2(u) + 1 for the other u >= 2.
C13_CeilLog2IsSmallest ==
    (component = "log") =>
        /\ (logPc = "while") => logValue <= SmallestLogAtLeast(u)
        /\ (logPc = "return") =>
               /\ logValue = SmallestLogAtLeast(u)
               /\ (u \in {{}, {0}}) => logValue = 0
               /\ (Cardinality(u) = 1) => logValue = Log2(u)
               /\ (Cardinality(u) > 1) => logValue = Log2(u) + 1

--------------------------------------------------------------------------
(* Wide bitfields of every word type *)

\* C14: for words of 8, 16, 32 and 64 bits and any N, after any sequence of
\* WideBitfieldSetBit and WideBitfieldClearBit calls with in-range bits on a
\* zero-initialised bitfield, WideBitfieldIsSet(b) is true exactly when the
\* last call on b was a SetBit: each call changes bit b % W of word b / W
\* and no other bit, so the set bits are the bits last set.
C14_LastCallDecides ==
    (component = "bits" /\ initial = ZeroField(N)) =>
        /\ SetBits(bitfield, W) = expected
        /\ \A b \in AllBits(N, W) : \A mask \in BitMasks(b, W) :
               WideBitfieldIsSet(bitfield, b, W, mask) <=> b \in expected

--------------------------------------------------------------------------
(* WideBitMaskScanForward: what a call leaves alone *)

\* A call of WideBitMaskScanForward entered with *pIndex < N*W has just
\* returned.
ScanInRange == component = "bits" /\ call' \in ScanCalls /\ arg' < N * W

====
